---- MODULE Spec2Model ----
(***************************************************************************)
(* Model of server/mcp_agentd_server.py: the tmux target resolution of     *)
(* tmux_run, the job token, the log/rc path resolution of the read side,   *)
(* and tmux_stop.                                                          *)
(*                                                                         *)
(* Python strings are sequences of atoms (one-character or one-word        *)
(* strings), so that f-strings are concatenations and split()/strip() are  *)
(* computed.  None and the empty string are both the empty sequence: every *)
(* place of the source that reads them tests truthiness only.  An optional *)
(* int is <<>> or <<n>>.  A path is a record [dir, stem, ext] whose dir is *)
(* a sequence of path components.                                          *)
(***************************************************************************)
EXTENDS Integers, Sequences, FiniteSets, TLC

VARIABLES
    tmuxOk,     \* shutil.which("tmux") finds the binary
    panes,      \* the panes of the tmux server: [s, w, p, active, cmd, cwd]
    sessions,   \* session name -> [attached, created] (attached = -1: never)
    clients,    \* tmux list-clients, in listing order: [activity, session]
    osEnv,      \* os.environ of the server process
    selfPane,   \* the module global SELF_PANE
    envLogDir,  \* the module global ENV_LOG_DIR
    dirs,       \* the directories that exist
    files,      \* the files that exist: [dir, stem, ext, text, readable]
    binJobRun,  \* bin/job-run exists
    binJobClean,\* bin/job-clean: "missing", "noexec" or "ok"
    clock,      \* the wall clock read by datetime.now(): <<minute, second>>
    jobs,       \* the runner processes spawned so far: [token, log_path, at],
                \* at: the clock reading of the launch
    ret         \* what the last call returned or raised (<<>>: none pending)

vars == <<tmuxOk, panes, sessions, clients, osEnv, selfPane, envLogDir, dirs,
          files, binJobRun, binJobClean, clock, jobs, ret>>

tmuxVars == <<tmuxOk, panes, sessions, clients>>
procVars == <<osEnv, selfPane, envLogDir>>
fsVars == <<dirs, files, binJobRun, binJobClean>>

-----------------------------------------------------------------------------
(* Bounds of the model *)

MaxPane == 1        \* pane indexes 0..MaxPane in each session's window
MaxClients == 2     \* attached clients
MaxStamp == 2       \* tmux timestamps 0..MaxStamp
MaxLaunches == 2    \* tmux_run calls
MaxMinute == 1      \* clock minutes 0..MaxMinute
MaxSecond == 1      \* clock seconds 0..MaxSecond
MaxFiles == 2       \* files present at once

-----------------------------------------------------------------------------
(* Strings *)

None == <<>>

Truthy(x) == x # <<>>

Or(x, y) == IF Truthy(x) THEN x ELSE y

Digits == <<"0", "1", "2", "3", "4", "5", "6", "7", "8", "9">>

HexDigits == Digits \o <<"a", "b", "c", "d", "e", "f">>

\* str(n) of a natural number
RECURSIVE Str(_)
Str(n) == IF n < 10 THEN <<Digits[n + 1]>> ELSE Str(n \div 10) \o <<Digits[(n % 10) + 1]>>

Whitespace == {" ", "\n", "\t"}

RECURSIVE LStrip(_)
LStrip(s) == IF s # <<>> /\ Head(s) \in Whitespace THEN LStrip(Tail(s)) ELSE s

RECURSIVE RStrip(_)
RStrip(s) ==
    IF s # <<>> /\ s[Len(s)] \in Whitespace THEN RStrip(SubSeq(s, 1, Len(s) - 1)) ELSE s

\* str.strip()
Strip(s) == RStrip(LStrip(s))

\* s.split(":", 1)[0]
RECURSIVE BeforeColon(_)
BeforeColon(s) ==
    IF s = <<>> \/ Head(s) = ":" THEN <<>> ELSE <<Head(s)>> \o BeforeColon(Tail(s))

HasColon(s) == \E i \in 1..Len(s) : s[i] = ":"

\* the order of Python's string comparison on the characters used
Alphabet == <<"-">> \o HexDigits \o <<"j", "o", "x">>

CharRank(c) == CHOOSE i \in 1..Len(Alphabet) : Alphabet[i] = c

RECURSIVE StrLess(_, _)
StrLess(a, b) ==
    IF b = <<>> THEN FALSE
    ELSE IF a = <<>> THEN TRUE
    ELSE IF Head(a) = Head(b) THEN StrLess(Tail(a), Tail(b))
    ELSE CharRank(Head(a)) < CharRank(Head(b))

\* sorted(set(xs)) of strings
RECURSIVE SortedStrs(_)
SortedStrs(S) ==
    IF S = {} THEN <<>>
    ELSE LET m == CHOOSE x \in S : \A y \in S \ {x} : StrLess(x, y)
         IN  <<m>> \o SortedStrs(S \ {m})

\* int(s): optional sign, digits, surrounding whitespace allowed; <<>> when
\* int() raises ValueError, else <<value>>
RECURSIVE DigitsValue(_, _)
DigitsValue(s, acc) ==
    IF s = <<>> THEN acc
    ELSE DigitsValue(Tail(s), 10 * acc + (CharRank(Head(s)) - 2))

IsDigits(s) == s # <<>> /\ \A i \in 1..Len(s) : \E d \in 1..10 : Digits[d] = s[i]

PyInt(s) ==
    LET t == Strip(s)
        neg == t # <<>> /\ Head(t) = "-"
        body == IF t # <<>> /\ Head(t) \in {"-", "+"} THEN Tail(t) ELSE t
    IN  IF IsDigits(body)
        THEN <<(IF neg THEN -1 ELSE 1) * DigitsValue(body, 0)>>
        ELSE None

-----------------------------------------------------------------------------
(* Module globals *)

HomeDir == <<"home">>
REPO_DIR == <<"repo">>
AGENTD_DIR == HomeDir \o <<".agentd">>
REPO_LOG_DIR == REPO_DIR \o <<"mcp_log">>
HOME_LOG_DIR == AGENTD_DIR \o <<"logs">>
SESSION == <<"agentd">>
CLI_WINDOW == <<"cli">>

-----------------------------------------------------------------------------
(* Filesystem *)

Path(d, stem, ext) == [dir |-> d, stem |-> stem, ext |-> ext]

PathOf(f) == Path(f.dir, f.stem, f.ext)

\* Path.exists() of a file path
Exists(p) == \E f \in files : PathOf(f) = p

FileAt(p) == CHOOSE f \in files : PathOf(f) = p

\* the stems of Path(d).glob("*.<ext>")
Glob(d, ext) == {f.stem : f \in {g \in files : g.dir = d /\ g.ext = ext}}

\* _read_text(path, fallback = "")
read_text(p) == IF Exists(p) /\ FileAt(p).readable THEN FileAt(p).text ELSE <<>>

job_rc_path(token) == Path(AGENTD_DIR, token, "rc")

candidate_log_dirs ==
    <<REPO_LOG_DIR>>
        \o (IF envLogDir # REPO_LOG_DIR THEN <<envLogDir>> ELSE <<>>)
        \o <<HOME_LOG_DIR>>

\* _job_log_path without the search: always the first candidate directory
job_log_path_first_only(token) == Path(candidate_log_dirs[1], token, "log")

job_log_path(token) ==
    LET ds == candidate_log_dirs
        hits == {i \in 1..Len(ds) : Exists(Path(ds[i], token, "log"))}
    IN  IF hits # {}
        THEN Path(ds[CHOOSE i \in hits : \A j \in hits : i <= j], token, "log")
        ELSE Path(candidate_log_dirs[1], token, "log")

list_job_tokens ==
    IF AGENTD_DIR \notin dirs THEN <<>>
    ELSE LET rcs == Glob(AGENTD_DIR, "rc")
             logs == UNION {Glob(candidate_log_dirs[i], "log") :
                               i \in {j \in 1..Len(candidate_log_dirs) :
                                         candidate_log_dirs[j] \in dirs}}
         IN  SortedStrs(rcs \cup logs)

job_status(token) ==
    LET rc_path == job_rc_path(token)
        log_path == job_log_path(token)
        rc_val == IF Exists(rc_path) /\ FileAt(rc_path).readable
                  THEN PyInt(Strip(FileAt(rc_path).text))
                  ELSE None
    IN  [token |-> token, rc |-> rc_val, has_log |-> Exists(log_path),
         rc_path |-> rc_path, log_path |-> log_path]

log_resource(token) ==
    LET p == job_log_path(token)
    IN  IF ~Exists(p) THEN <<>> ELSE read_text(p)

target_file == Path(AGENTD_DIR, <<"agent_pane">>, "")

read_target ==
    IF ~Exists(target_file) THEN None ELSE Strip(FileAt(target_file).text)

-----------------------------------------------------------------------------
(* The tmux server, as the queries of the source see it *)

SessOrder == << <<"a">>, <<"b">> >>     \* tmux lists sessions by name

SessNames == {SessOrder[i] : i \in 1..Len(SessOrder)}

PaneIdx(r) == Str(r.w) \o <<".">> \o Str(r.p)

\* #{session_name}:#{window_index}.#{pane_index}
PaneTarget(r) == r.s \o <<":">> \o PaneIdx(r)

Alive(s) == \E r \in panes : r.s = s

ServerUp == tmuxOk /\ panes # {}

\* the panes of a set in listing order
RECURSIVE PaneList(_)
PaneList(S) ==
    IF S = {} THEN <<>>
    ELSE LET m == CHOOSE r \in S : \A q \in S : <<r.w, r.p>> = <<q.w, q.p>>
                                        \/ r.w < q.w \/ (r.w = q.w /\ r.p < q.p)
         IN  <<m>> \o PaneList(S \ {m})

\* tmux list-panes -t <session>: the panes listed, <<>> when the command fails
ListPanes(session) == PaneList({r \in panes : r.s = session})

\* the index sorted(.., key, reverse=True)[0] takes from a listing with the
\* keys ks: the first one holding the greatest key (Python's sort is stable,
\* also with reverse=True)
FirstMax(ks) ==
    CHOOSE i \in 1..Len(ks) :
        /\ \A j \in 1..Len(ks) : ks[j] <= ks[i]
        /\ \A j \in 1..(i - 1) : ks[j] < ks[i]

\* tmux list-sessions: the live sessions in listing order
RECURSIVE ListSessionsFrom(_)
ListSessionsFrom(i) ==
    IF i > Len(SessOrder) THEN <<>>
    ELSE (IF Alive(SessOrder[i])
          THEN <<[name |-> SessOrder[i], attached |-> sessions[SessOrder[i]].attached,
                  created |-> sessions[SessOrder[i]].created]>>
          ELSE <<>>) \o ListSessionsFrom(i + 1)

ListSessions == ListSessionsFrom(1)

tmux_pane_exists(target) == tmuxOk /\ \E r \in panes : PaneTarget(r) = target

\* tmux display-message -p -t <target> "#{pane_current_path}", <<>> on failure
pane_current_path(target) ==
    IF tmux_pane_exists(target)
    THEN (CHOOSE r \in panes : PaneTarget(r) = target).cwd
    ELSE <<>>

detect_self_pane ==
    IF ~tmuxOk THEN None
    ELSE IF ~Truthy(osEnv.TMUX_PANE) THEN None
    ELSE IF \E r \in panes : <<r.s, r.w, r.p>> = osEnv.TMUX_PANE
         THEN LET target == PaneTarget(CHOOSE r \in panes :
                                          <<r.s, r.w, r.p>> = osEnv.TMUX_PANE)
              IN  IF Truthy(target) /\ tmux_pane_exists(target) THEN target ELSE None
         ELSE None

Keys(xs, field) == [i \in 1..Len(xs) |-> xs[i][field]]

auto_session_tier1 ==
    IF ServerUp /\ clients # <<>> THEN clients[FirstMax(Keys(clients, "activity"))].session ELSE None

auto_session_tier2 ==
    LET EverAttached(x) == x.attached # -1
        pairs == IF ServerUp THEN SelectSeq(ListSessions, EverAttached) ELSE <<>>
    IN  IF pairs # <<>> THEN pairs[FirstMax(Keys(pairs, "attached"))].name ELSE None

auto_session_tier3 ==
    IF ServerUp /\ ListSessions # <<>>
    THEN ListSessions[FirstMax(Keys(ListSessions, "created"))].name
    ELSE None

\* auto_session with the attach tier consulted before the client tier
auto_session_attach_first ==
    IF ~tmuxOk THEN None
    ELSE IF Truthy(auto_session_tier2) THEN auto_session_tier2
    ELSE IF Truthy(auto_session_tier1) THEN auto_session_tier1
    ELSE auto_session_tier3

auto_session ==
    IF ~tmuxOk THEN None
    ELSE IF Truthy(auto_session_tier1) THEN auto_session_tier1
    ELSE IF Truthy(auto_session_tier2) THEN auto_session_tier2
    ELSE auto_session_tier3

active_pane_in_session(session) ==
    IF ~tmuxOk THEN None
    ELSE LET lines == ListPanes(session)
             actives == {i \in 1..Len(lines) : lines[i].active}
         IN  IF actives # {}
             THEN session \o <<":">>
                    \o PaneIdx(lines[CHOOSE i \in actives : \A j \in actives : i <= j])
             ELSE IF lines # <<>> THEN session \o <<":">> \o PaneIdx(lines[1])
             ELSE None

shells == {"bash", "zsh", "fish", "sh", "nu"}

shell_friendly_pane_in_session(session) ==
    IF ~tmuxOk THEN None
    ELSE LET lines == ListPanes(session)
             hits == {i \in 1..Len(lines) : lines[i].cmd \in shells}
         IN  IF hits # {}
             THEN session \o <<":">>
                    \o PaneIdx(lines[CHOOSE i \in hits : \A j \in hits : i <= j])
             ELSE IF lines # <<>> THEN session \o <<":">> \o PaneIdx(lines[1])
             ELSE None

-----------------------------------------------------------------------------
(* tmux_run *)

Pad2(n) == <<Digits[(n \div 10) + 1], Digits[(n % 10) + 1]>>

\* strftime with the seconds left out of the format
strftime_no_seconds(now) ==
    <<"2", "0", "2", "5", "0", "1", "0", "1", "0", "0">> \o Pad2(now[1]) \o <<"0", "0">>

\* datetime.now().strftime("%Y%m%d%H%M%S"); the date and the hour are fixed here
strftime(now) ==
    <<"2", "0", "2", "5", "0", "1", "0", "1", "0", "0">> \o Pad2(now[1]) \o Pad2(now[2])

HexByte(b) == <<HexDigits[(b \div 16) + 1], HexDigits[(b % 16) + 1]>>

\* secrets.token_hex(3), of the three random bytes drawn
token_hex(bytes) == HexByte(bytes[1]) \o HexByte(bytes[2]) \o HexByte(bytes[3])

new_token(now, bytes) == <<"j", "o", "b", "-">> \o strftime(now) \o <<"-">> \o token_hex(bytes)

\* resolve_target with SELF_PANE consulted before the saved target and the
\* automatic session
resolve_target_self_first(target, session, window, pane) ==
    IF Truthy(target) THEN target
    ELSE IF Truthy(session)
    THEN session \o <<":">> \o Or(window, CLI_WINDOW) \o <<".">>
            \o Str(IF pane # None THEN pane[1] ELSE 0)
    ELSE IF Truthy(selfPane) THEN selfPane
    ELSE LET saved == read_target
             t1 == IF Truthy(saved) /\ tmux_pane_exists(saved) THEN saved
                   ELSE IF Truthy(auto_session)
                   THEN active_pane_in_session(auto_session) ELSE None
         IN  IF ~Truthy(t1) THEN SESSION \o <<":">> \o CLI_WINDOW \o <<".", "0">> ELSE t1

\* lines 327-350: the pane stored in env["JOB_TARGET_PANE"]
resolve_target(target, session, window, pane) ==
    IF Truthy(target) THEN target
    ELSE IF Truthy(session)
    THEN LET w == Or(window, CLI_WINDOW)
             p == IF pane # None THEN pane[1] ELSE 0
         IN  session \o <<":">> \o w \o <<".">> \o Str(p)
    ELSE LET saved == read_target
             t1 == IF Truthy(saved) /\ tmux_pane_exists(saved) THEN saved
                   ELSE LET auto == auto_session
                        IN  IF Truthy(auto) THEN active_pane_in_session(auto) ELSE None
             t2 == IF ~Truthy(t1) /\ Truthy(selfPane) THEN selfPane ELSE t1
         IN  IF ~Truthy(t2) THEN SESSION \o <<":">> \o CLI_WINDOW \o <<".", "0">> ELSE t2

\* lines 329, 333, 350: session_name
session_name_of(target, session, window, pane) ==
    IF Truthy(target)
    THEN (IF HasColon(target) THEN BeforeColon(target) ELSE Or(session, SESSION))
    ELSE IF Truthy(session) THEN session
    ELSE BeforeColon(resolve_target(target, session, window, pane))

\* lines 357-369: the predicted log path
predict_log_path(target_pane, token) ==
    LET cwd == IF Truthy(target_pane) THEN pane_current_path(target_pane) ELSE <<>>
        log_dir_guess == IF Truthy(cwd) THEN cwd \o <<"mcp_log">> ELSE None
        base_log_dir == Or(log_dir_guess, REPO_LOG_DIR)
    IN  Path(base_log_dir, token, "log")

\* lines 371-388: exec_session
exec_session_of(session_name, target_pane) ==
    LET exec_mode == Or(osEnv.AGENTD_EXEC_SESSION_MODE, <<"self">>)
    IN  IF exec_mode = <<"self">> THEN session_name
        ELSE IF exec_mode = <<"fixed">> THEN Or(osEnv.AGENTD_EXEC_SESSION, <<"agentexec">>)
        ELSE LET cwd == IF Truthy(target_pane) THEN pane_current_path(target_pane) ELSE <<>>
                 base == IF Truthy(cwd) THEN cwd[Len(cwd)] ELSE "exec"
             IN  Or(osEnv.AGENTD_EXEC_SESSION, <<"exec-", base>>)

\* lines 398-408: the value of env["JOB_NOTIFY_PANE"] after the setdefault calls
notify_pane_of(target_pane) ==
    LET force_shell == Or(osEnv.AGENTD_NOTIFY_FORCE_SHELL, <<"0">>)
        wanted == IF force_shell = <<"1">>
                  THEN Or(shell_friendly_pane_in_session(BeforeColon(target_pane)),
                          target_pane)
                  ELSE target_pane
    IN  Or(osEnv.JOB_NOTIFY_PANE, wanted)

TmuxRun(target, session, window, pane, bytes) ==
    /\ Len(jobs) < MaxLaunches
    /\ IF ~binJobRun
       THEN /\ ret' = [op |-> "run", raised |-> "RuntimeError",
                       args |-> [target |-> target, session |-> session,
                                 window |-> window, pane |-> pane]]
            /\ jobs' = jobs
       ELSE LET token == new_token(clock, bytes)
                target_pane == resolve_target(target, session, window, pane)
                session_name == session_name_of(target, session, window, pane)
                log_path == predict_log_path(target_pane, token)
                exec_session == exec_session_of(session_name, target_pane)
                env == [JOB_TOKEN |-> token,
                        JOB_TARGET_PANE |-> target_pane,
                        JOB_NOTIFY_PANE |-> notify_pane_of(target_pane),
                        AGENTD_EXEC_SESSION_MODE |->
                            Or(osEnv.AGENTD_EXEC_SESSION_MODE, <<"self">>)]
            IN  /\ jobs' = Append(jobs, [token |-> token, log_path |-> log_path, at |-> clock])
                /\ ret' = [op |-> "run", raised |-> "",
                           args |-> [target |-> target, session |-> session,
                                     window |-> window, pane |-> pane],
                           token |-> token, session |-> session_name,
                           exec_session |-> exec_session, target |-> target_pane,
                           log_path |-> log_path, spawned |-> env]
    /\ UNCHANGED <<tmuxVars, procVars, fsVars, clock>>

-----------------------------------------------------------------------------
(* tmux_stop and the read-side resources *)

\* bin/job-clean, as its docstring in tmux_stop describes it: on success the
\* job's rc file is removed, and its log when --remove-log is given
job_clean_effect(token, remove_log) ==
    {f \in files :
        /\ PathOf(f) # job_rc_path(token)
        /\ ~(remove_log /\ f.stem = token /\ f.ext = "log")}

\* tmux_stop with subprocess.run called without check=True
TmuxStop_unchecked(token, remove_log, exit, stderr, stdout) ==
    /\ IF binJobClean = "missing"
       THEN /\ ret' = [op |-> "stop", raised |-> "RuntimeError", token |-> token]
            /\ files' = files
       ELSE IF binJobClean = "noexec"
       THEN /\ ret' = [op |-> "stop", raised |-> "PermissionError", token |-> token]
            /\ files' = files
       ELSE /\ ret' = [op |-> "stop", raised |-> "", token |-> token,
                       exit |-> exit, stderr |-> stderr, stdout |-> stdout,
                       value |-> [token |-> token, cleaned |-> TRUE]]
            /\ files' = IF exit = 0 THEN job_clean_effect(token, remove_log) ELSE files
    /\ UNCHANGED <<tmuxVars, procVars, dirs, binJobRun, binJobClean, clock, jobs>>

\* exit: the script's exit status; stderr, stdout: its captured output
TmuxStop(token, remove_log, exit, stderr, stdout) ==
    /\ IF binJobClean = "missing"
       THEN /\ ret' = [op |-> "stop", raised |-> "RuntimeError", token |-> token]
            /\ files' = files
       ELSE IF binJobClean = "noexec"
       THEN /\ ret' = [op |-> "stop", raised |-> "PermissionError", token |-> token]
            /\ files' = files
       ELSE IF exit = 0
       THEN /\ ret' = [op |-> "stop", raised |-> "", token |-> token, exit |-> exit,
                       stderr |-> stderr, stdout |-> stdout,
                       value |-> [token |-> token, cleaned |-> TRUE]]
            /\ files' = job_clean_effect(token, remove_log)
       ELSE /\ ret' = [op |-> "stop", raised |-> "", token |-> token, exit |-> exit,
                       stderr |-> stderr, stdout |-> stdout,
                       value |-> [token |-> token, cleaned |-> FALSE,
                                  error |-> Or(stderr, stdout)]]
            /\ files' = files
    /\ UNCHANGED <<tmuxVars, procVars, dirs, binJobRun, binJobClean, clock, jobs>>

JobResource(token) ==
    /\ ret' = [op |-> "status", token |-> token, value |-> job_status(token)]
    /\ UNCHANGED <<tmuxVars, procVars, fsVars, clock, jobs>>

LogResource(token) ==
    /\ ret' = [op |-> "logs", token |-> token, value |-> log_resource(token)]
    /\ UNCHANGED <<tmuxVars, procVars, fsVars, clock, jobs>>

\* _list_job_tokens has no caller left in the file; it is called here as it stands
ListJobTokens ==
    /\ ret' = [op |-> "list", value |-> list_job_tokens]
    /\ UNCHANGED <<tmuxVars, procVars, fsVars, clock, jobs>>

-----------------------------------------------------------------------------
(* The environment: tmux, the filesystem, the clock, the runner.  Each step *)
(* of the environment discards the value the last call returned.           *)

NoSession == [attached |-> -1, created |-> 0]

Pane(s, p, active, cmd, cwd) ==
    [s |-> s, w |-> 0, p |-> p, active |-> active, cmd |-> cmd, cwd |-> cwd]

\* tmux new-session / split-window: the new pane becomes the active one
NewPane(s, p, cmd, cwd, t) ==
    /\ p \in 0..MaxPane
    /\ ~\E r \in panes : r.s = s /\ r.p = p
    /\ panes' = {IF r.s = s THEN [r EXCEPT !.active = FALSE] ELSE r : r \in panes}
                    \cup {Pane(s, p, TRUE, cmd, cwd)}
    /\ sessions' = IF Alive(s) THEN sessions
                   ELSE [sessions EXCEPT ![s] = [attached |-> -1, created |-> t]]
    /\ ret' = <<>>
    /\ UNCHANGED <<tmuxOk, clients, procVars, fsVars, clock, jobs>>

\* tmux kill-pane; the session ends with its last pane, and its clients detach
KillPane(r) ==
    /\ r \in panes
    /\ LET rest == {q \in panes \ {r} : q.s = r.s}
           first == PaneList(rest)[1]
       IN  /\ panes' = IF r.active /\ rest # {}
                       THEN (panes \ {r, first}) \cup {[first EXCEPT !.active = TRUE]}
                       ELSE panes \ {r}
           /\ sessions' = IF rest = {} THEN [sessions EXCEPT ![r.s] = NoSession]
                          ELSE sessions
           /\ clients' = IF rest = {}
                         THEN LET Other(c) == c.session # r.s
                              IN  SelectSeq(clients, Other)
                         ELSE clients
    /\ ret' = <<>>
    /\ UNCHANGED <<tmuxOk, procVars, fsVars, clock, jobs>>

\* tmux select-pane
SelectPane(r) ==
    /\ r \in panes
    /\ ~r.active
    /\ panes' = {[q EXCEPT !.active = (q = r)] : q \in {x \in panes : x.s = r.s}}
                    \cup {q \in panes : q.s # r.s}
    /\ ret' = <<>>
    /\ UNCHANGED <<tmuxOk, sessions, clients, procVars, fsVars, clock, jobs>>

\* the pane's foreground command or working directory changes
PaneChange(r, cmd, cwd) ==
    /\ r \in panes
    /\ <<cmd, cwd>> # <<r.cmd, r.cwd>>
    /\ panes' = (panes \ {r}) \cup {[r EXCEPT !.cmd = cmd, !.cwd = cwd]}
    /\ ret' = <<>>
    /\ UNCHANGED <<tmuxOk, sessions, clients, procVars, fsVars, clock, jobs>>

\* tmux attach -t s at time t
Attach(s, t) ==
    /\ Alive(s)
    /\ Len(clients) < MaxClients
    /\ clients' = Append(clients, [activity |-> t, session |-> s])
    /\ sessions' = [sessions EXCEPT ![s].attached = t]
    /\ ret' = <<>>
    /\ UNCHANGED <<tmuxOk, panes, procVars, fsVars, clock, jobs>>

\* a key typed in client i at time t
Activity(i, t) ==
    /\ i \in 1..Len(clients)
    /\ clients[i].activity # t
    /\ clients' = [clients EXCEPT ![i].activity = t]
    /\ ret' = <<>>
    /\ UNCHANGED <<tmuxOk, panes, sessions, procVars, fsVars, clock, jobs>>

Detach(i) ==
    /\ i \in 1..Len(clients)
    /\ clients' = SubSeq(clients, 1, i - 1) \o SubSeq(clients, i + 1, Len(clients))
    /\ ret' = <<>>
    /\ UNCHANGED <<tmuxOk, panes, sessions, procVars, fsVars, clock, jobs>>

\* the tmux binary appears on or disappears from PATH
PathChange ==
    /\ tmuxOk' = ~tmuxOk
    /\ ret' = <<>>
    /\ UNCHANGED <<panes, sessions, clients, procVars, fsVars, clock, jobs>>

IsPrefix(a, b) == Len(a) <= Len(b) /\ SubSeq(b, 1, Len(a)) = a

MkDir(d) ==
    /\ d \notin dirs
    /\ d = HOME_LOG_DIR => AGENTD_DIR \in dirs
    /\ dirs' = dirs \cup {d}
    /\ ret' = <<>>
    /\ UNCHANGED <<tmuxVars, procVars, files, binJobRun, binJobClean, clock, jobs>>

\* rm -r d
RmTree(d) ==
    /\ d \in dirs
    /\ dirs' = {x \in dirs : ~IsPrefix(d, x)}
    /\ files' = {f \in files : ~IsPrefix(d, f.dir)}
    /\ ret' = <<>>
    /\ UNCHANGED <<tmuxVars, procVars, binJobRun, binJobClean, clock, jobs>>

File(d, stem, ext, text, readable) ==
    [dir |-> d, stem |-> stem, ext |-> ext, text |-> text, readable |-> readable]

WriteFile(f) ==
    /\ f.dir \in dirs
    /\ f \notin files
    /\ files' = {g \in files : PathOf(g) # PathOf(f)} \cup {f}
    /\ Cardinality(files') <= MaxFiles
    /\ ret' = <<>>
    /\ UNCHANGED <<tmuxVars, procVars, dirs, binJobRun, binJobClean, clock, jobs>>

RemoveFile(f) ==
    /\ f \in files
    /\ files' = files \ {f}
    /\ ret' = <<>>
    /\ UNCHANGED <<tmuxVars, procVars, dirs, binJobRun, binJobClean, clock, jobs>>

\* bin/job-clean is installed, removed or loses its execute bit
SetJobClean(st) ==
    /\ st # binJobClean
    /\ binJobClean' = st
    /\ ret' = <<>>
    /\ UNCHANGED <<tmuxVars, procVars, dirs, files, binJobRun, clock, jobs>>

SetJobRun ==
    /\ binJobRun' = ~binJobRun
    /\ ret' = <<>>
    /\ UNCHANGED <<tmuxVars, procVars, dirs, files, binJobClean, clock, jobs>>

\* the wall clock moves to the next second
Tick ==
    /\ \/ /\ clock[2] < MaxSecond
          /\ clock' = <<clock[1], clock[2] + 1>>
       \/ /\ clock[2] = MaxSecond
          /\ clock[1] < MaxMinute
          /\ clock' = <<clock[1] + 1, 0>>
    /\ ret' = <<>>
    /\ UNCHANGED <<tmuxVars, procVars, fsVars, jobs>>

\* the runner of job i writes the job's log where the launch predicted it
RunnerWritesLog(i, text) ==
    /\ i \in 1..Len(jobs)
    /\ LET p == jobs[i].log_path
           f == File(p.dir, p.stem, p.ext, text, TRUE)
       IN  /\ f \notin files
           /\ p.dir = HOME_LOG_DIR => AGENTD_DIR \in dirs
           /\ dirs' = dirs \cup {p.dir}
           /\ files' = {g \in files : PathOf(g) # p} \cup {f}
    /\ ret' = <<>>
    /\ UNCHANGED <<tmuxVars, procVars, binJobRun, binJobClean, clock, jobs>>

-----------------------------------------------------------------------------
(* Start of the server process *)

Environ(tmux_pane, notify_pane, force_shell, exec_mode, exec_session) ==
    [TMUX_PANE |-> tmux_pane, JOB_NOTIFY_PANE |-> notify_pane,
     AGENTD_NOTIFY_FORCE_SHELL |-> force_shell,
     AGENTD_EXEC_SESSION_MODE |-> exec_mode, AGENTD_EXEC_SESSION |-> exec_session]

SessA == SessOrder[1]
SessB == SessOrder[2]

\* the pane a server started inside tmux runs in
HomePane == <<SessA, 0, 0>>

PlainEnv == Environ(None, None, None, None, None)
InsideEnv == Environ(HomePane, None, None, None, None)

\* The state after the module is imported: SELF_PANE is detected once, here.
\* A server started inside tmux finds its pane alive; one started outside
\* finds whatever the tmux server holds (here: nothing).
InitWith(envs, logDirs) ==
    /\ tmuxOk = TRUE
    /\ osEnv \in envs
    /\ panes = IF Truthy(osEnv.TMUX_PANE)
               THEN {Pane(osEnv.TMUX_PANE[1], osEnv.TMUX_PANE[3], TRUE, "bash", REPO_DIR)}
               ELSE {}
    /\ sessions = [s \in SessNames |-> NoSession]
    /\ clients = <<>>
    /\ selfPane = detect_self_pane
    /\ envLogDir \in logDirs
    /\ dirs = {AGENTD_DIR, REPO_LOG_DIR}
    /\ files = {}
    /\ binJobRun = TRUE
    /\ binJobClean = "ok"
    /\ clock = <<0, 0>>
    /\ jobs = <<>>
    /\ ret = <<>>

-----------------------------------------------------------------------------
(* Specification of target resolution: tmux changes, the saved target file *)
(* is written and removed, and tmux_run is called with every shape of      *)
(* arguments.                                                              *)

Args(target, session, window, pane) ==
    [target |-> target, session |-> session, window |-> window, pane |-> pane]

TargetA00 == <<"a", ":", "0", ".", "0">>
TargetB00 == <<"b", ":", "0", ".", "0">>

RunArgs ==
    {Args(None, None, None, None),
     Args(TargetA00, None, None, None),
     Args(<<"zz">>, None, None, None),
     Args(<<"zz">>, SessB, None, None),
     Args(TargetA00, SessB, <<"w">>, <<1>>),
     Args(None, SessB, None, None),
     Args(None, SessB, <<"w">>, None),
     Args(None, SessB, None, <<1>>),
     Args(None, <<"zz">>, <<"w">>, <<0>>),
     Args(None, None, <<"w">>, <<1>>)}

\* what "set target" leaves in ~/.agentd/agent_pane
SavedFiles ==
    {File(AGENTD_DIR, <<"agent_pane">>, "", t \o <<"\n">>, TRUE) :
        t \in {TargetA00, TargetB00, <<>>}}

PaneSlots(s) == IF s = SessA THEN 0..MaxPane ELSE {0}

NoBytes == <<0, 0, 0>>

InitResolve == InitWith({PlainEnv, InsideEnv}, {REPO_LOG_DIR})

NextResolve ==
    \/ \E s \in SessNames : \E p \in PaneSlots(s) : NewPane(s, p, "bash", REPO_DIR, 0)
    \/ \E r \in panes : KillPane(r)
    \/ \E r \in panes : SelectPane(r)
    \/ \E s \in SessNames : Attach(s, 0)
    \/ \E i \in 1..Len(clients) : Detach(i)
    \/ \E f \in SavedFiles : WriteFile(f)
    \/ \E f \in files : RemoveFile(f)
    \/ \E a \in RunArgs : TmuxRun(a.target, a.session, a.window, a.pane, NoBytes)

SpecResolve == InitResolve /\ [][NextResolve]_vars

-----------------------------------------------------------------------------
(* Claims on target resolution *)

Launched == ret # <<>> /\ ret.op = "run" /\ ret.raised = ""

\* the saved default target as the file holds it, <<>> when there is none
SavedDefault ==
    IF \E f \in files : f.dir = AGENTD_DIR /\ f.stem = <<"agent_pane">> /\ f.ext = ""
    THEN Strip((CHOOSE f \in files :
                    f.dir = AGENTD_DIR /\ f.stem = <<"agent_pane">> /\ f.ext = "").text)
    ELSE <<>>

LivePane(t) == tmuxOk /\ \E r \in panes : r.s \o <<":">> \o PaneIdx(r) = t

\* the active pane of the session autoSession returns, <<>> when there is none
AutoActivePane ==
    IF tmuxOk /\ \E r \in panes : r.s = auto_session /\ r.active
    THEN PaneTarget(CHOOSE r \in panes : r.s = auto_session /\ r.active)
    ELSE <<>>

TierSat(i, a) ==
    CASE i = 1 -> a.target # <<>>
      [] i = 2 -> a.session # <<>>
      [] i = 3 -> SavedDefault # <<>> /\ LivePane(SavedDefault)
      [] i = 4 -> AutoActivePane # <<>>
      [] i = 5 -> selfPane # <<>>
      [] i = 6 -> TRUE

TierVal(i, a) ==
    CASE i = 1 -> a.target
      [] i = 2 -> a.session \o <<":">>
                    \o (IF a.window = <<>> THEN CLI_WINDOW ELSE a.window)
                    \o <<".">> \o (IF a.pane = <<>> THEN <<"0">> ELSE Str(a.pane[1]))
      [] i = 3 -> SavedDefault
      [] i = 4 -> AutoActivePane
      [] i = 5 -> selfPane
      [] i = 6 -> <<"agentd", ":", "cli", ".", "0">>

\* C1: the target a launch hands to the runner and returns is the value of the
\* first satisfiable tier of the chain explicit target, explicit session,
\* saved default whose pane exists, active pane of the automatic session,
\* self pane, configured default; no lower tier is chosen while a higher one
\* is satisfiable.
C1_ResolutionChain ==
    Launched =>
        \A i \in 1..6 :
            (TierSat(i, ret.args) /\ \A j \in 1..(i - 1) : ~TierSat(j, ret.args))
                => /\ ret.target = TierVal(i, ret.args)
                   /\ ret.spawned.JOB_TARGET_PANE = TierVal(i, ret.args)

\* a launch without explicit arguments whose saved target names a dead pane
\* takes the automatic session's active pane although a different self pane
\* is known
C1_Witness ==
    /\ Launched
    /\ ret.args = Args(None, None, None, None)
    /\ SavedDefault # <<>> /\ ~LivePane(SavedDefault)
    /\ AutoActivePane # <<>>
    /\ selfPane # <<>> /\ selfPane # AutoActivePane
    /\ ret.target = AutoActivePane

\* C2: a launch with an explicit target that names no existing pane fails
\* with an invalid-target error and spawns no runner.
C2_InvalidTargetRejected ==
    (ret # <<>> /\ ret.op = "run" /\ ret.args.target # <<>>
        /\ ~LivePane(ret.args.target))
        => ret.raised # ""

\* C4: a target a launch takes from the saved default or from the self pane
\* references a pane that exists at that launch.
C4_FreshExistenceCheck ==
    (Launched /\ ret.args.target = <<>> /\ ret.args.session = <<>>
        /\ ret.target \in {SavedDefault, selfPane})
        => LivePane(ret.target)

-----------------------------------------------------------------------------
(* Specification of the automatic session: sessions are created and end,   *)
(* clients attach, type and detach at arbitrary times, the tmux binary     *)
(* comes and goes, and _auto_session is evaluated.                         *)

AutoSession ==
    /\ ret' = [op |-> "auto", value |-> auto_session]
    /\ UNCHANGED <<tmuxVars, procVars, fsVars, clock, jobs>>

InitAuto == InitWith({PlainEnv}, {REPO_LOG_DIR})

NextAuto ==
    \/ \E s \in SessNames : \E t \in 0..MaxStamp : NewPane(s, 0, "bash", REPO_DIR, t)
    \/ \E r \in panes : KillPane(r)
    \/ \E s \in SessNames : \E t \in 0..MaxStamp : Attach(s, t)
    \/ \E i \in 1..Len(clients) : \E t \in 0..MaxStamp : Activity(i, t)
    \/ \E i \in 1..Len(clients) : Detach(i)
    \/ PathChange
    \/ AutoSession

SpecAuto == InitAuto /\ [][NextAuto]_vars

LiveSessions == {s \in SessNames : \E r \in panes : r.s = s}

AttachedSessions == {s \in LiveSessions : sessions[s].attached # -1}

\* C3: autoSession returns the session of a client with the greatest
\* activity whenever a client is listed, whatever the sessions' attach and
\* creation times; else a session with the greatest last-attached time among
\* those ever attached; else a session with the greatest creation time; and
\* nothing when tmux is unavailable or no session exists.
C3_AutoSessionChain ==
    (ret # <<>> /\ ret.op = "auto") =>
        IF ~tmuxOk \/ LiveSessions = {} THEN ret.value = <<>>
        ELSE IF clients # <<>>
        THEN \E i \in 1..Len(clients) :
                /\ ret.value = clients[i].session
                /\ \A j \in 1..Len(clients) : clients[j].activity <= clients[i].activity
        ELSE IF AttachedSessions # {}
        THEN /\ ret.value \in AttachedSessions
             /\ \A s \in AttachedSessions :
                    sessions[s].attached <= sessions[ret.value].attached
        ELSE /\ ret.value \in LiveSessions
             /\ \A s \in LiveSessions :
                    sessions[s].created <= sessions[ret.value].created

\* the most recently active client sits in a session that was attached
\* earlier than another session, and its session is returned
C3_Witness ==
    /\ ret # <<>> /\ ret.op = "auto"
    /\ Len(clients) = 2
    /\ clients[1].session # clients[2].session
    /\ clients[1].activity > clients[2].activity
    /\ sessions[clients[1].session].attached < sessions[clients[2].session].attached
    /\ ret.value = clients[1].session

-----------------------------------------------------------------------------
(* Specification of the job tokens: the clock advances and tmux_run is     *)
(* called, drawing its random bytes; bin/job-run comes and goes.           *)

RandBytes == {<<0, 0, 0>>, <<171, 205, 239>>}

InitTokens == InitWith({PlainEnv, InsideEnv}, {REPO_LOG_DIR})

NextTokens ==
    \/ Tick
    \/ SetJobRun
    \/ \E a \in {Args(None, None, None, None), Args(TargetB00, None, None, None)} :
          \E bytes \in RandBytes : TmuxRun(a.target, a.session, a.window, a.pane, bytes)
    \/ \E r \in panes : KillPane(r)

SpecTokens == InitTokens /\ [][NextTokens]_vars

Suffix(token) == SubSeq(token, Len(token) - 5, Len(token))

\* C5 as stated: any two launches return distinct tokens, also within the
\* same clock second.
C5_TokensNeverReused ==
    \A i, j \in 1..Len(jobs) : i # j => jobs[i].token # jobs[j].token

\* C5 amended: launches in different clock seconds return distinct tokens,
\* and launches within the same second return distinct tokens exactly when
\* their random suffixes differ.
C5_TokensDistinctAcrossSeconds ==
    \A i, j \in 1..Len(jobs) :
        i # j =>
            /\ jobs[i].at # jobs[j].at => jobs[i].token # jobs[j].token
            /\ jobs[i].at = jobs[j].at =>
                  (jobs[i].token = jobs[j].token
                      <=> Suffix(jobs[i].token) = Suffix(jobs[j].token))

\* two launches in different seconds of the same minute drew the same random
\* bytes and returned different tokens
C5_Witness ==
    /\ Len(jobs) >= 2
    /\ jobs[1].at[1] = jobs[2].at[1]
    /\ jobs[1].at[2] # jobs[2].at[2]
    /\ Suffix(jobs[1].token) = Suffix(jobs[2].token)
    /\ jobs[1].token # jobs[2].token
    /\ Launched /\ ret.token = jobs[2].token

-----------------------------------------------------------------------------
(* Specification of the read side: directories and files appear and        *)
(* disappear, and the job resource and the token listing are read.         *)

VarLogDir == <<"var", "log">>

TokenZero == new_token(<<0, 0>>, NoBytes)
TokenRand == new_token(<<0, 0>>, <<171, 205, 239>>)

Stems == {TokenZero, TokenRand, <<"x">>}

RcTexts == {<<"0", "\n">>, <<" ", "-", "1", "2", " ">>, <<"a", "b", "c">>}

RcFiles ==
    {File(AGENTD_DIR, stem, "rc", text, TRUE) : stem \in Stems, text \in RcTexts}
        \cup {File(AGENTD_DIR, stem, "rc", <<"0">>, FALSE) : stem \in Stems}

LogDirs == {REPO_LOG_DIR, VarLogDir, HOME_LOG_DIR}

LogFiles == {File(d, stem, "log", <<"o", "k">>, TRUE) : d \in LogDirs, stem \in Stems}

InitStatus == InitWith({PlainEnv}, {REPO_LOG_DIR, VarLogDir, HOME_LOG_DIR})

NextStatus ==
    \/ \E d \in LogDirs \cup {AGENTD_DIR} : MkDir(d)
    \/ \E d \in LogDirs \cup {AGENTD_DIR} : RmTree(d)
    \/ \E f \in RcFiles \cup LogFiles : WriteFile(f)
    \/ \E f \in files : RemoveFile(f)
    \/ \E token \in Stems : JobResource(token)
    \/ ListJobTokens

SpecStatus == InitStatus /\ [][NextStatus]_vars

\* the candidate log directories: repo-local, configured override, home
CandidateDirs == {REPO_LOG_DIR, envLogDir, HOME_LOG_DIR}

RcFilesOf(token) == {f \in files : f.dir = AGENTD_DIR /\ f.stem = token /\ f.ext = "rc"}

LogStems == {f.stem : f \in {g \in files : g.ext = "log" /\ g.dir \in CandidateDirs}}

RcStems == {f.stem : f \in {g \in files : g.ext = "rc" /\ g.dir = AGENTD_DIR}}

\* the integer a text denotes, as <<n>>, or <<>> when it denotes none
IntegerOf(text) ==
    LET t == Strip(text)
        unsigned == IF t # <<>> /\ t[1] \in {"+", "-"} THEN SubSeq(t, 2, Len(t)) ELSE t
    IN  IF unsigned # <<>> /\ \A i \in 1..Len(unsigned) :
                                  unsigned[i] \in {Digits[d] : d \in 1..10}
        THEN <<(IF t[1] = "-" THEN -1 ELSE 1) * DigitsValue(unsigned, 0)>>
        ELSE <<>>

\* C6: listTokens returns exactly the deduplicated, sorted union of the stems
\* of the rc files of the state directory and of the log files of every
\* candidate log directory, whether or not the state directory exists.
C6_ListIsUnion ==
    (ret # <<>> /\ ret.op = "list") =>
        /\ {ret.value[i] : i \in 1..Len(ret.value)} = RcStems \cup LogStems
        /\ \A i \in 1..(Len(ret.value) - 1) : StrLess(ret.value[i], ret.value[i + 1])

\* C8: status returns as return code the integer value of the trimmed rc
\* file content when the file exists, is readable and parses, and null in
\* every other case; has_log is true exactly when some candidate log
\* directory holds <token>.log.
C8_StatusReadsArtifacts ==
    (ret # <<>> /\ ret.op = "status") =>
        /\ ret.value.rc =
              (IF \E f \in RcFilesOf(ret.token) : f.readable
               THEN IntegerOf((CHOOSE f \in RcFilesOf(ret.token) : TRUE).text)
               ELSE <<>>)
        /\ ret.value.has_log
              <=> \E f \in files : f.stem = ret.token /\ f.ext = "log"
                                      /\ f.dir \in CandidateDirs

\* the rc file holds "0\n" and the log lies in the home log directory only,
\* behind an empty repo log directory
C8_Witness ==
    /\ ret # <<>> /\ ret.op = "status"
    /\ \E f \in RcFilesOf(ret.token) : f.text = <<"0", "\n">>
    /\ ret.value.rc = <<0>>
    /\ \E f \in files : f.stem = ret.token /\ f.ext = "log" /\ f.dir = HOME_LOG_DIR
    /\ ~\E f \in files : f.stem = ret.token /\ f.ext = "log" /\ f.dir # HOME_LOG_DIR
    /\ ret.value.has_log

-----------------------------------------------------------------------------
(* Specification of tmux_stop: the cleanup script comes and goes, job      *)
(* artifacts are written, and tmux_stop is called; the script's exit       *)
(* status and output are its own.                                          *)

StopFiles ==
    {File(AGENTD_DIR, token, "rc", <<"0", "\n">>, TRUE) : token \in {TokenZero, TokenRand}}
        \cup {File(REPO_LOG_DIR, token, "log", <<"o", "k">>, TRUE) :
                  token \in {TokenZero, TokenRand}}

InitStop == InitWith({PlainEnv}, {REPO_LOG_DIR})

NextStop ==
    \/ \E st \in {"missing", "noexec", "ok"} : SetJobClean(st)
    \/ \E f \in StopFiles : WriteFile(f)
    \/ \E token \in {TokenZero, TokenRand} : \E remove_log \in BOOLEAN :
          \E exit \in {0, 1} : \E stderr \in {<<>>, <<"e">>} : \E stdout \in {<<>>, <<"o">>} :
              TmuxStop(token, remove_log, exit, stderr, stdout)

SpecStop == InitStop /\ [][NextStop]_vars

\* C7 as stated: stop returns a value for every outcome of the cleanup step,
\* a missing or non-executable script included.
C7_StopNeverRaises ==
    (ret # <<>> /\ ret.op = "stop") => ret.raised = ""

\* C7 amended: stop returns a value exactly when the cleanup script exists
\* and can be executed; then cleaned is true exactly when the script exits
\* zero, and otherwise error holds the captured stderr, or the captured
\* stdout when stderr is empty.  A missing script raises RuntimeError and a
\* non-executable one lets the OS error through.
C7_StopReportsScriptOutcome ==
    (ret # <<>> /\ ret.op = "stop") =>
        /\ ret.raised = "" <=> binJobClean = "ok"
        /\ binJobClean = "missing" => ret.raised = "RuntimeError"
        /\ binJobClean = "noexec" => ret.raised = "PermissionError"
        /\ binJobClean = "ok" =>
              /\ ret.value.token = ret.token
              /\ ret.value.cleaned <=> ret.exit = 0
              /\ ret.exit # 0 =>
                    ret.value.error = (IF ret.stderr # <<>> THEN ret.stderr ELSE ret.stdout)

\* the script ran, failed and wrote to stdout only
C7_Witness ==
    /\ ret # <<>> /\ ret.op = "stop" /\ ret.raised = ""
    /\ ret.exit = 1 /\ ret.stderr = <<>> /\ ret.stdout = <<"o">>
    /\ ret.value = [token |-> ret.token, cleaned |-> FALSE, error |-> <<"o">>]

-----------------------------------------------------------------------------
(* Specification of the notification pane: the server runs inside tmux     *)
(* with one of several inherited environments, panes come, go and change   *)
(* their foreground command, and tmux_run is called.                       *)

NotifyEnvs ==
    {InsideEnv,
     Environ(HomePane, None, <<"1">>, None, None),
     Environ(HomePane, None, <<"0">>, <<"fixed">>, None),
     Environ(HomePane, None, <<"1">>, <<"per_repo">>, None),
     Environ(HomePane, TargetB00, None, None, <<"x">>),
     Environ(HomePane, TargetB00, <<"1">>, <<"fixed">>, <<"x">>)}

InitNotify == InitWith(NotifyEnvs, {REPO_LOG_DIR})

NextNotify ==
    \/ \E s \in SessNames : \E p \in PaneSlots(s) : \E cmd \in {"vim", "bash"} :
          NewPane(s, p, cmd, REPO_DIR, 0)
    \/ \E r \in panes : KillPane(r)
    \/ \E r \in panes : \E cmd \in {"vim", "bash"} : PaneChange(r, cmd, r.cwd)
    \/ \E a \in {Args(None, None, None, None), Args(TargetA00, None, None, None),
                 Args(<<"zz">>, None, None, None), Args(None, SessB, None, None)} :
          TmuxRun(a.target, a.session, a.window, a.pane, NoBytes)

SpecNotify == InitNotify /\ [][NextNotify]_vars

SessionPart(t) == SubSeq(t, 1, (CHOOSE i \in 1..(Len(t) + 1) :
                                   /\ i = Len(t) + 1 \/ t[i] = ":"
                                   /\ \A j \in 1..(i - 1) : t[j] # ":") - 1)

\* shellFriendlyPane: the first listed pane of the session running a shell,
\* else the first listed pane, <<>> when the session lists no pane
ShellFriendly(sess) ==
    LET mine == {r \in panes : tmuxOk /\ r.s = sess}
        shellPanes == {r \in mine : r.cmd \in {"bash", "zsh", "fish", "sh", "nu"}}
        pool == IF shellPanes # {} THEN shellPanes ELSE mine
    IN  IF pool = {} THEN <<>>
        ELSE PaneTarget(CHOOSE r \in pool : \A q \in pool : r.p <= q.p)

\* C9: the notification pane handed to the runner is the resolved target, or
\* with shell rerouting configured the shell-friendly pane of the target's
\* session (the target itself when there is none); it always lies in the
\* session of the resolved target, whatever the inherited environment holds.
C9_NotifyPaneInTargetSession ==
    Launched =>
        /\ ret.spawned.JOB_NOTIFY_PANE =
              (IF osEnv.AGENTD_NOTIFY_FORCE_SHELL = <<"1">>
                    /\ ShellFriendly(SessionPart(ret.target)) # <<>>
               THEN ShellFriendly(SessionPart(ret.target))
               ELSE ret.target)
        /\ SessionPart(ret.spawned.JOB_NOTIFY_PANE) = SessionPart(ret.target)

-----------------------------------------------------------------------------
(* Specification of the log path: the target pane changes its working      *)
(* directory, tmux_run is called, the runner writes the log at the         *)
(* predicted path, and the read side is queried.                           *)

ProjDir == <<"proj">>

LogText == <<"o", "k">>

InitLog == InitWith({InsideEnv}, {REPO_LOG_DIR, VarLogDir})

NextLog ==
    \/ \E r \in panes : \E cwd \in {REPO_DIR, ProjDir} : PaneChange(r, r.cmd, cwd)
    \/ \E r \in panes : KillPane(r)
    \/ \E a \in {Args(None, None, None, None), Args(TargetA00, None, None, None)} :
          \E bytes \in RandBytes : TmuxRun(a.target, a.session, a.window, a.pane, bytes)
    \/ \E i \in 1..Len(jobs) : RunnerWritesLog(i, LogText)
    \/ \E i \in 1..Len(jobs) : JobResource(jobs[i].token)
    \/ \E i \in 1..Len(jobs) : LogResource(jobs[i].token)
    \/ ListJobTokens

SpecLog == InitLog /\ [][NextLog]_vars

\* the launches of a token whose log the runner has written where predicted
Written(token) ==
    {i \in 1..Len(jobs) :
        /\ jobs[i].token = token
        /\ \E f \in files : PathOf(f) = jobs[i].log_path /\ f.text = LogText}

\* C10: once the runner has written a job's log at the log_path the launch
\* returned, status reports has_log with that log_path, logs returns the
\* file's content, and listTokens includes the token.
C10_PredictedLogIsFound ==
    /\ (ret # <<>> /\ ret.op = "status") =>
          \A i \in Written(ret.token) :
              ret.value.has_log /\ ret.value.log_path = jobs[i].log_path
    /\ (ret # <<>> /\ ret.op = "logs") =>
          (Written(ret.token) # {} => ret.value = LogText)
    /\ (ret # <<>> /\ ret.op = "list") =>
          \A i \in 1..Len(jobs) :
              Written(jobs[i].token) # {} =>
                  \E k \in 1..Len(ret.value) : ret.value[k] = jobs[i].token

====
